---- MODULE Spec2Model ----
(***************************************************************************)
(* HR leave agent (lab3-code): the LangGraph workflow built by             *)
(* create_agent_graph, its nodes and routers (agent_nodes.py), the state   *)
(* schema (agent_state.py), the Langflow client's return contract          *)
(* (langflow_client.py) and run_agent's initial state (main.py).           *)
(*                                                                         *)
(* Encoding of Python values:                                              *)
(*   None           <<>>                                                   *)
(*   a value x      <<x>>          (Optional[T] is a sequence of length<=1)*)
(*   a dict         a function whose DOMAIN is the set of keys present     *)
(*   a name         a sequence of words, "" is the empty sequence          *)
(*   console input  a sequence of one-character strings                    *)
(*   a response     a sequence of text segments (f-string pieces)          *)
(*   a message      [id, content]: id None or <<id>>, content a sequence   *)
(*                  of words                                               *)
(***************************************************************************)
EXTENDS Integers, Sequences, FiniteSets, TLC

\* ------------------------------------------------------------------ bounds

\* Largest day count the collaborator payload or the initial state carries.
MaxDays == 7

\* Longest message list handed to the messages reducer on either side.
MaxMessages == 2

\* Number of times the approval prompt is shown before the reviewer answers
\* with a canonical token (the loop itself is unbounded).
MaxPrompts == 3

\* ------------------------------------------------------- value encoding

None == <<>>

Some(x) == <<x>>

\* dict.get(k, default)
Get(d, k, default) == IF k \in DOMAIN d THEN d[k] ELSE default

\* Python truthiness of an Optional[str] / Optional[int] / Optional[name]
TruthyStr(v) == v # None /\ v # Some("")

TruthyInt(v) == v # None /\ v # Some(0)

TruthyName(v) == v # None /\ v # Some(<<>>)

TruthySeq(v) == v # <<>>

\* str(n) for the day counts of the model, str(None) = "None"
Digits == <<"0", "1", "2", "3", "4", "5", "6", "7", "8", "9", "10", "11", "12">>

IntStr(n) == IF n >= 0 /\ n < Len(Digits) THEN Digits[n + 1] ELSE "n"

FormatInt(v) == IF v = None THEN "None" ELSE IntStr(v[1])

\* f"{v}" of an Optional[response]: the text, or "None"
FormatResponse(v) == IF v = None THEN <<"None">> ELSE v[1]

\* ----------------------------------------------------- agent_state.py

\* The fields AgentState declares.
AgentStateFields ==
    {"messages", "current_user_name", "employee_id", "leave_type",
     "start_date", "end_date", "days_requested", "leave_balance",
     "requires_approval", "approval_status", "approval_reason",
     "agent_response", "error"}

\* A message as run_agent builds it: {"role": "user", "content": ...}, no id.
Message(content) == [id |-> None, content |-> content]

\* The reducer named by the annotation of messages. The messages of right are
\* taken in order: one carrying the id of a message of left replaces that
\* message where it stands, any other is appended. A message without an id
\* is given a fresh one, which no other message carries.
RECURSIVE AddMessagesFrom(_, _, _)
AddMessagesFrom(left, merged, right) ==
    IF right = <<>> THEN merged
    ELSE LET m == Head(right)
             hits == {i \in 1..Len(left) : m.id # None /\ left[i].id = m.id}
         IN IF hits # {}
            THEN LET idx == CHOOSE i \in hits : \A j \in hits : j <= i IN
                 AddMessagesFrom(left, [merged EXCEPT ![idx] = m], Tail(right))
            ELSE AddMessagesFrom(left, Append(merged, m), Tail(right))

add_messages(left, right) == AddMessagesFrom(left, left, right)

\* The schema with the reducer left off messages: the field is overwritten
\* like any other.
Merge_NoReducer(S, P) ==
    [k \in (DOMAIN S) \cup (DOMAIN P) |-> IF k \in DOMAIN P THEN P[k] ELSE S[k]]

\* messages: Annotated[list, add_messages] accumulates; every other field is
\* overwritten by the partial update.
Merge(S, P) ==
    [k \in (DOMAIN S) \cup (DOMAIN P) |->
        IF k \in DOMAIN P
        THEN IF k = "messages" /\ k \in DOMAIN S
             THEN add_messages(S[k], P[k])
             ELSE P[k]
        ELSE S[k]]

\* d[k] = v on a dict (the key is created when absent)
Put(d, k, v) == [x \in (DOMAIN d) \cup {k} |-> IF x = k THEN v ELSE d[x]]

\* ------------------------------------------- agent_nodes.py: the routers

\* Words matching [A-Z][a-z]+ in full.
CapWords == {"Alice", "Bob", "Smith"}

\* Words of the form <[A-Z][a-z]+>'s
PossessiveWords == {"Alice's", "Bob's"}

PossessiveBase(w) == IF w = "Alice's" THEN "Alice" ELSE "Bob"

\* str.lower() on a word
LowerWord(w) ==
    CASE w = "Alice" -> "alice"
      [] w = "Bob" -> "bob"
      [] w = "Smith" -> "smith"
      [] w = "Alice's" -> "alice's"
      [] w = "Bob's" -> "bob's"
      [] OTHER -> w

RECURSIVE LowerName(_)
LowerName(n) == IF n = <<>> THEN <<>> ELSE <<LowerWord(Head(n))>> \o LowerName(Tail(n))

\* re.findall(kw + r"\s+([A-Z][a-z]+(?:\s+[A-Z][a-z]+)?)", content), scanning from
\* word i: the captured names, left to right, matches not overlapping, the
\* optional second word taken greedily.
RECURSIVE KeywordMatches(_, _, _)
KeywordMatches(kw, content, i) ==
    IF i > Len(content) THEN <<>>
    ELSE IF content[i] = kw /\ i + 1 <= Len(content) /\ content[i + 1] \in CapWords
    THEN IF i + 2 <= Len(content) /\ content[i + 2] \in CapWords
         THEN << <<content[i + 1], content[i + 2]>> >> \o KeywordMatches(kw, content, i + 3)
         ELSE << <<content[i + 1]>> >> \o KeywordMatches(kw, content, i + 2)
    ELSE KeywordMatches(kw, content, i + 1)

\* re.findall(r"([A-Z][a-z]+(?:\s+[A-Z][a-z]+)?)'s\s+leave", content)
RECURSIVE PossessiveMatches(_, _)
PossessiveMatches(content, i) ==
    IF i > Len(content) THEN <<>>
    ELSE IF content[i] \in PossessiveWords /\ i + 1 <= Len(content) /\ content[i + 1] = "leave"
    THEN (IF i > 1 /\ content[i - 1] \in CapWords
          THEN << <<content[i - 1], PossessiveBase(content[i])>> >>
          ELSE << <<PossessiveBase(content[i])>> >>)
         \o PossessiveMatches(content, i + 2)
    ELSE PossessiveMatches(content, i + 1)

\* The names the three name_patterns find, in the order the loops visit them.
MentionedNames(content) ==
    KeywordMatches("for", content, 1)
        \o KeywordMatches("employee", content, 1)
        \o PossessiveMatches(content, 1)

\* The test of line 47 without the two .lower() calls.
OtherNames_CaseSensitive(content, current_user_name) ==
    IF TruthyName(current_user_name)
    THEN SelectSeq(MentionedNames(content), LAMBDA n : n # current_user_name[1])
    ELSE <<>>

\* The test of line 47 without `current_user_name and`: a missing principal
\* counts as the empty name, which no mentioned name equals.
OtherNames_NoPrincipalTest(content, current_user_name) ==
    SelectSeq(MentionedNames(content),
              LAMBDA n : LowerName(n) # LowerName(IF TruthyName(current_user_name)
                                                  THEN current_user_name[1] ELSE <<>>))

\* The names for which the test of line 47 succeeds.
OtherNames(content, current_user_name) ==
    IF TruthyName(current_user_name)
    THEN SelectSeq(MentionedNames(content),
                   LAMBDA n : LowerName(n) # LowerName(current_user_name[1]))
    ELSE <<>>

AccessDeniedMessage(name) ==
    <<"Access denied. You can only access your own leave information, not data for employee">>
        \o name \o <<".">>

UnauthorizedError == "Unauthorized access attempt"

\* The dict the router holds when it returns: it assigns agent_response and error
\* in place before returning "denied".
PrivacyDeniedState(state, name) ==
    Put(Put(state, "agent_response", Some(AccessDeniedMessage(name))),
        "error", Some(UnauthorizedError))

\* check_privacy_access: the label returned and the dict as the router leaves it.
check_privacy_access(state) ==
    LET messages == Get(state, "messages", <<>>) IN
    IF ~TruthySeq(messages)
    THEN [label |-> "proceed", state |-> state]
    ELSE LET latest_message == messages[Len(messages)].content
             current_user_name == Get(state, "current_user_name", Some(<<>>))
             others == OtherNames(latest_message, current_user_name)
         IN IF others # <<>>
            THEN [label |-> "denied", state |-> PrivacyDeniedState(state, others[1])]
            ELSE [label |-> "proceed", state |-> state]

\* should_require_approval returning labels the graph's map does not have.
should_require_approval_RenamedLabels(state) ==
    IF Get(state, "requires_approval", FALSE) THEN "needs_approval" ELSE "auto_approved"

\* should_require_approval
should_require_approval(state) ==
    IF Get(state, "requires_approval", FALSE) THEN "human_approval" ELSE "finalize"

\* ------------------------------- langflow_client.py: LangflowClient.query

\* What query() can do when call_langflow_node calls it: return the dict
\* {conversational_response, query_flag, data, ...} or raise Exception(text).
\* query_flag is kept by its truthiness; data is whatever JSON value the reply
\* carried: a dict (data_is_dict) with any subset of the payload keys, or
\* another non-empty JSON value on which .get does not exist.
EmptyDict == [k \in {} |-> None]

FullPayload ==
    [employee_id |-> Some("EMP1"), employee_name |-> Some(<<"Alice">>),
     leave_balance |-> Some(4), leave_type |-> Some("vacation"),
     start_date |-> Some("d1"), end_date |-> Some("d2")]

\* Values present in the payload but falsy, or null.
FalsyPayload ==
    [employee_id |-> Some(""), employee_name |-> None,
     leave_balance |-> Some(0), leave_type |-> None]

DayValues == {None} \cup {Some(d) : d \in 0..MaxDays}

Payloads ==
    {EmptyDict, FullPayload, FalsyPayload}
    \cup {Put(EmptyDict, "days_requested", d) : d \in DayValues}
    \cup {Put(FullPayload, "days_requested", Some(d)) : d \in {1, MaxDays}}
    \cup {Put(FalsyPayload, "days_requested", Some(0))}

QueryReturns ==
    {[conversational_response |-> <<"reply">>, query_flag |-> FALSE,
      data_is_dict |-> TRUE, data |-> p] : p \in Payloads}
    \cup
    {[conversational_response |-> <<"reply">>, query_flag |-> TRUE,
      data_is_dict |-> TRUE, data |-> p] :
        p \in {EmptyDict, Put(FullPayload, "days_requested", Some(MaxDays))}}
    \cup
    {[conversational_response |-> <<>>, query_flag |-> FALSE,
      data_is_dict |-> FALSE, data |-> EmptyDict]}

QueryOutcomes ==
    {[raises |-> FALSE, exc |-> "", response |-> r] : r \in QueryReturns}
    \cup
    {[raises |-> TRUE, exc |-> "Error making API request",
      response |-> [conversational_response |-> <<>>, query_flag |-> TRUE,
                    data_is_dict |-> TRUE, data |-> EmptyDict]]}

\* ------------------------------------------- agent_nodes.py: the nodes

\* The result of invoking a node: the partial update it returns, or an
\* exception that leaves it (raised).
Returned(updates) == [raised |-> FALSE, updates |-> updates]

Raised == [raised |-> TRUE, updates |-> EmptyDict]

ApologyResponse == <<"I encountered an error processing your request.">>

\* The except branch of call_langflow_node.
LangflowFailureUpdates(exc) ==
    [error |-> Some(exc), agent_response |-> Some(ApologyResponse)]

\* The payload copied with every leave field written, None where the payload
\* has no value.
LangflowDataUpdates_ZeroFill(updates, data) ==
    [k \in (DOMAIN updates)
            \cup {"employee_id", "current_user_name", "leave_balance", "leave_type",
                  "start_date", "end_date", "days_requested"} |->
        IF k \in DOMAIN updates THEN updates[k]
        ELSE IF k = "current_user_name" THEN Get(data, "employee_name", None)
        ELSE Get(data, k, None)]

\* Lines 86-100: the payload copied onto updates, field by field.
LangflowDataUpdates(updates, data) ==
    LET u1 == IF TruthyStr(Get(data, "employee_id", None))
              THEN Put(updates, "employee_id", data["employee_id"]) ELSE updates
        u2 == IF TruthyName(Get(data, "employee_name", None))
              THEN Put(u1, "current_user_name", data["employee_name"]) ELSE u1
        u3 == IF Get(data, "leave_balance", None) # None
              THEN Put(u2, "leave_balance", data["leave_balance"]) ELSE u2
        u4 == IF TruthyStr(Get(data, "leave_type", None))
              THEN Put(u3, "leave_type", data["leave_type"]) ELSE u3
        u5 == IF TruthyStr(Get(data, "start_date", None))
              THEN Put(u4, "start_date", data["start_date"]) ELSE u4
        u6 == IF TruthyStr(Get(data, "end_date", None))
              THEN Put(u5, "end_date", data["end_date"]) ELSE u5
        u7 == IF Get(data, "days_requested", None) # None
              THEN Put(u6, "days_requested", data["days_requested"]) ELSE u6
    IN u7

\* call_langflow_node without its try/except: query()'s exception leaves the node.
call_langflow_node_NoExcept(state, outcome) ==
    IF ~TruthySeq(Get(state, "messages", <<>>))
    THEN Returned([error |-> Some("No messages to process")])
    ELSE IF outcome.raises
    THEN Raised
    ELSE Returned([agent_response |-> Some(outcome.response.conversational_response)])

\* call_langflow_node, given what query() does when it is called.
call_langflow_node(state, outcome) ==
    LET messages == Get(state, "messages", <<>>) IN
    IF ~TruthySeq(messages)
    THEN Returned([error |-> Some("No messages to process")])
    ELSE IF outcome.raises
    THEN Returned(LangflowFailureUpdates(outcome.exc))
    ELSE LET response == outcome.response
             updates == [agent_response |-> Some(response.conversational_response)]
             has_data == IF response.data_is_dict
                         THEN DOMAIN response.data # {}
                         ELSE TRUE
         IN IF ~response.query_flag /\ has_data
            THEN IF response.data_is_dict
                 THEN Returned(LangflowDataUpdates(updates, response.data))
                 ELSE Returned(LangflowFailureUpdates("object has no attribute 'get'"))
            ELSE Returned(updates)

\* int(default) when APPROVAL_THRESHOLD_DAYS is unset.
DefaultThreshold == 5

\* int(s) of a decimal string
ParseInt(s) == CHOOSE n \in 0..(Len(Digits) - 1) : Digits[n + 1] = s

\* int(os.getenv("APPROVAL_THRESHOLD_DAYS", 5)); env is the variable's value
\* (None when unset).
ApprovalThreshold(env) == IF env = None THEN DefaultThreshold ELSE ParseInt(env[1])

\* The test of line 124 with the comparison off by one.
ExceedsThreshold_OffByOne(days_requested, threshold) ==
    TruthyInt(days_requested) /\ days_requested[1] > threshold + 1

\* The test of line 124 with >= for >.
ExceedsThreshold_Inclusive(days_requested, threshold) ==
    TruthyInt(days_requested) /\ days_requested[1] >= threshold

\* The test of line 124.
ExceedsThreshold(days_requested, threshold) ==
    TruthyInt(days_requested) /\ days_requested[1] > threshold

\* check_approval_node returning no requires_approval when the threshold is
\* not exceeded: the value already in the state stays in force.
check_approval_node_KeepsEarlierFlag(state, env) ==
    LET days_requested == Get(state, "days_requested", Some(0))
        threshold == ApprovalThreshold(env)
    IN IF ExceedsThreshold(days_requested, threshold)
       THEN Returned([requires_approval |-> TRUE, approval_status |-> Some("pending")])
       ELSE Returned([approval_status |-> Some("auto_approved")])

\* check_approval_node
check_approval_node(state, env) ==
    LET days_requested == Get(state, "days_requested", Some(0))
        threshold == ApprovalThreshold(env)
    IN IF ExceedsThreshold(days_requested, threshold)
       THEN Returned([requires_approval |-> TRUE, approval_status |-> Some("pending")])
       ELSE Returned([requires_approval |-> FALSE, approval_status |-> Some("auto_approved")])

\* str.strip() and str.lower() on console input
IsSpace(c) == c \in {" ", "\t"}

RECURSIVE LStrip(_)
LStrip(s) == IF s # <<>> /\ IsSpace(Head(s)) THEN LStrip(Tail(s)) ELSE s

RECURSIVE RStrip(_)
RStrip(s) ==
    IF s # <<>> /\ IsSpace(s[Len(s)]) THEN RStrip(SubSeq(s, 1, Len(s) - 1)) ELSE s

Strip(s) == RStrip(LStrip(s))

LowerChar(c) ==
    CASE c = "Y" -> "y"
      [] c = "E" -> "e"
      [] c = "S" -> "s"
      [] c = "N" -> "n"
      [] c = "O" -> "o"
      [] OTHER -> c

Lower(s) == [i \in 1..Len(s) |-> LowerChar(s[i])]

\* decision = input(...).strip().lower()
ReadDecision(raw) == Lower(Strip(raw))

\* The membership test of line 154 with the abbreviation "y" let through.
DecisionAccepted_AllowsAbbreviation(decision) ==
    decision \in {<<"y", "e", "s">>, <<"n", "o">>, <<"y">>}

\* The test written against capitalised tokens, which the lowered line never
\* equals.
DecisionAccepted_ComparesCapitalised(decision) ==
    decision \in {<<"Y", "e", "s">>, <<"N", "o">>}

\* decision in ['yes', 'no']
DecisionAccepted(decision) == decision \in {<<"y", "e", "s">>, <<"n", "o">>}

\* The gate returning its sentence and the reason but no approval_status.
human_approval_result_LeavesStatus(state, decision, raw_reason) ==
    LET reason == Strip(raw_reason)
        approval_reason == IF reason # <<>> THEN reason ELSE <<"No reason provided">>
        days == FormatInt(Get(state, "days_requested", None))
    IN Returned([approval_reason |-> Some(approval_reason),
                 agent_response |->
                     Some(IF decision = <<"y", "e", "s">>
                          THEN <<"Your leave request for", days,
                                 "days has been approved. Reason:">> \o approval_reason
                          ELSE <<"Your leave request for", days,
                                 "days has been rejected. Reason:">> \o approval_reason)])

\* Lines 158-181: what the gate returns once a decision is accepted.
human_approval_result(state, decision, raw_reason) ==
    LET reason == Strip(raw_reason)
        approval_status == IF decision = <<"y", "e", "s">> THEN "approved" ELSE "rejected"
        approval_reason == IF reason # <<>> THEN reason ELSE <<"No reason provided">>
        days == FormatInt(Get(state, "days_requested", None))
        agent_response ==
            IF approval_status = "approved"
            THEN <<"Your leave request for", days, "days has been approved. Reason:">>
                     \o approval_reason
            ELSE <<"Your leave request for", days, "days has been rejected. Reason:">>
                     \o approval_reason
    IN Returned([approval_status |-> Some(approval_status),
                 approval_reason |-> Some(approval_reason),
                 agent_response |-> Some(agent_response)])

AutoApprovedSuffix == <<"Your request has been automatically approved.">>

ErrorResponse(error) ==
    <<"Error:", error, "Please try again or contact support.">>

\* finalize_node
finalize_node(state) ==
    IF Get(state, "approval_status", None) = Some("auto_approved")
       /\ TruthyInt(Get(state, "days_requested", None))
    THEN Returned([agent_response |->
             Some((IF "agent_response" \in DOMAIN state
                   THEN FormatResponse(state["agent_response"])
                   ELSE <<>>) \o AutoApprovedSuffix)])
    ELSE IF TruthyStr(Get(state, "error", None))
    THEN Returned([agent_response |-> Some(ErrorResponse(state["error"][1]))])
    ELSE Returned(EmptyDict)

\* ------------------------------------------------ main.py: run_agent

\* initial_state as run_agent builds it (lines 28-42).
run_agent_initial_state(user_message, employee_id) ==
    [messages |-> <<Message(user_message)>>,
     employee_id |-> employee_id,
     employee_name |-> None,
     leave_type |-> None,
     start_date |-> None,
     end_date |-> None,
     days_requested |-> None,
     leave_balance |-> None,
     requires_approval |-> FALSE,
     approval_status |-> None,
     approval_reason |-> None,
     agent_response |-> None,
     error |-> None]

\* Message contents (sequences of words) the executions are started with.
MessageContents ==
    { <<"my", "leave", "balance">>,
      <<"leave", "for", "Bob">>,
      <<"leave", "for", "Alice">>,
      <<"for", "alice">>,
      <<"employee", "Bob", "Smith">>,
      <<"for", "Alice", "Smith">>,
      <<"Bob's", "leave">>,
      <<"Alice's", "leave">>,
      <<"for", "Alice", "employee", "Bob">> }

EmployeeIds == {None, Some("EMP12345")}

RunAgentStates ==
    {run_agent_initial_state(m, e) : m \in MessageContents, e \in EmployeeIds}

\* States a caller other than run_agent hands to the compiled graph: any
\* message list, the acting principal's name, and fields left over from
\* earlier use.
MessageLists ==
    {<<>>} \cup {<<Message(m)>> : m \in MessageContents}
    \cup {<<Message(<<"leave", "for", "Bob">>), Message(<<"my", "leave", "balance">>)>>,
          <<Message(<<"my", "leave", "balance">>), Message(<<"leave", "for", "Bob">>)>>}

UserNames == {None, Some(<<>>), Some(<<"Alice">>), Some(<<"alice">>), Some(<<"Alice", "Smith">>)}

LeftoverFields ==
    { EmptyDict,
      [days_requested |-> Some(2), approval_status |-> Some("auto_approved")],
      [days_requested |-> Some(MaxDays), requires_approval |-> TRUE,
       approval_status |-> Some("pending")],
      [requires_approval |-> TRUE],
      [error |-> Some("stale error"), agent_response |-> Some(<<"stale reply">>)] }

DirectStates ==
    {Merge(Put(Put(run_agent_initial_state(<<>>, None), "messages", ms),
               "current_user_name", n), f) :
        ms \in MessageLists, n \in UserNames, f \in LeftoverFields}

\* A caller may also leave fields out altogether.
SparseStates ==
    {EmptyDict}
    \cup {[messages |-> <<Message(m)>>] : m \in MessageContents}
    \cup {[messages |-> <<Message(m)>>, current_user_name |-> Some(<<"Alice">>)] :
             m \in MessageContents}

InitialStates == RunAgentStates \cup DirectStates \cup SparseStates

\* Values of the environment variable APPROVAL_THRESHOLD_DAYS (None: unset).
EnvThresholdValues == {None, Some("4"), Some("6")}

\* What the reviewer may type at the two prompts.
RawDecisions ==
    { <<"y", "e", "s">>, <<" ", "Y", "E", "S", " ">>, <<"N", "o">>,
      <<"y">>, <<>>, <<"n", "o", "p", "e">> }

RawReasons == { <<>>, <<" ">>, <<" ", "o", "k">> }

\* -------------------------------------- hr_agent_graph.py: the graph

Nodes == {"call_langflow", "check_approval", "human_approval", "finalize"}

END == "__end__"

\* The entry map with "denied" sent down the business path.
EntryLabelMap_DeniedRunsBusiness == [proceed |-> "call_langflow", denied |-> "call_langflow"]

\* set_conditional_entry_point(check_privacy_access, {...})
EntryLabelMap == [proceed |-> "call_langflow", denied |-> "finalize"]

\* add_conditional_edges("check_approval", should_require_approval, {...})
ApprovalLabelMap == [human_approval |-> "human_approval", finalize |-> "finalize"]

\* The edges with human_approval wired straight to END.
Edges_GateSkipsFinalize ==
    [call_langflow |-> "check_approval", human_approval |-> END, finalize |-> END]

\* The edges with human_approval wired back to call_langflow.
Edges_GateLoopsBack ==
    [call_langflow |-> "check_approval", human_approval |-> "call_langflow",
     finalize |-> END]

\* add_edge(...)
Edges ==
    [call_langflow |-> "check_approval", human_approval |-> "finalize", finalize |-> END]

\* The position the executor moves to for a destination.
Goto(dest) == IF dest = END THEN "DONE" ELSE dest

\* A router's label looked up in its map; a label the map lacks fails the run.
Route(label_map, label) ==
    IF label \in DOMAIN label_map THEN Goto(label_map[label]) ELSE "FAILED"

VARIABLES
    agent_state,   \* the state of the running invocation
    initial,       \* the state the invocation was started with
    pc,            \* ENTRY, the node about to run or running, DONE, FAILED
    invoked,       \* the nodes invoked so far, in order
    returned,      \* node -> the partial update it returned
    entry_label,   \* the label the entry router returned (None before it ran)
    query_outcome, \* what query() did when call_langflow_node called it
    threshold,     \* the threshold check_approval_node read
    gate,          \* human_approval_node: "none", "decision" or "reason" prompt
    prompts,       \* how many times the decision prompt was shown
    last_input,    \* the latest raw text typed at the decision prompt
    decision,      \* the accepted decision
    reason_input,  \* the raw text typed at the reason prompt
    router_wrote,  \* the entry router's assignments reached the executor's state
    first,         \* an earlier invocation of the graph: what it was given, what it returned
    other          \* a second invocation running at the same time

vars ==
    <<agent_state, initial, pc, invoked, returned, entry_label, query_outcome,
      threshold, gate, prompts, last_input, decision, reason_input, router_wrote,
      first, other>>

\* What belongs to other invocations of the graph.
invocations == <<first, other>>

ExecutorStates ==
    {"ENTRY", "call_langflow", "check_approval", "human_approval", "finalize",
     "DONE", "FAILED"}

\* The executor waits for console input inside human_approval_node.
AwaitingInput == pc = "human_approval" /\ gate # "none"

Init ==
    /\ agent_state \in InitialStates
    /\ initial = agent_state
    /\ pc = "ENTRY"
    /\ invoked = <<>>
    /\ returned = EmptyDict
    /\ entry_label = None
    /\ query_outcome = None
    /\ threshold = None
    /\ gate = "none"
    /\ prompts = 0
    /\ last_input = None
    /\ decision = None
    /\ reason_input = None
    /\ router_wrote = FALSE
    /\ first = None
    /\ other = None

\* The executor's handling of a node's result: an exception leaves ainvoke
\* (the run fails, nothing is merged); a partial update is merged and the
\* node's outgoing edge, evaluated on the merged state, gives the next position.
Complete(node, result) ==
    IF result.raised
    THEN /\ pc' = "FAILED"
         /\ UNCHANGED <<agent_state, returned>>
    ELSE LET merged == Merge(agent_state, result.updates) IN
         /\ agent_state' = merged
         /\ returned' = Put(returned, node, result.updates)
         /\ pc' = IF node = "check_approval"
                  THEN Route(ApprovalLabelMap, should_require_approval(merged))
                  ELSE Goto(Edges[node])

\* The conditional entry point: check_privacy_access runs on the initial
\* state before any node. Whether the dict it assigns to is the executor's
\* own state or a copy of it is the graph library's choice, not the
\* repository's: both are possible outcomes.
Entry ==
    /\ pc = "ENTRY"
    /\ LET r == check_privacy_access(agent_state) IN
       /\ entry_label' = Some(r.label)
       /\ pc' = Route(EntryLabelMap, r.label)
       /\ \E aliased \in BOOLEAN :
            /\ agent_state' = IF aliased THEN r.state ELSE agent_state
            /\ router_wrote' = (aliased /\ r.label = "denied")
    /\ UNCHANGED <<initial, invoked, returned, query_outcome, threshold, gate,
                   prompts, last_input, decision, reason_input, invocations>>

RunCallLangflow ==
    /\ pc = "call_langflow"
    /\ invoked' = Append(invoked, "call_langflow")
    /\ \E o \in QueryOutcomes :
         /\ query_outcome' = IF TruthySeq(Get(agent_state, "messages", <<>>))
                             THEN Some(o) ELSE None
         /\ Complete("call_langflow", call_langflow_node(agent_state, o))
    /\ UNCHANGED <<initial, entry_label, threshold, gate, prompts, last_input, decision,
                   reason_input, router_wrote, invocations>>

RunCheckApproval ==
    /\ pc = "check_approval"
    /\ invoked' = Append(invoked, "check_approval")
    /\ \E env \in EnvThresholdValues :
         /\ threshold' = Some(ApprovalThreshold(env))
         /\ Complete("check_approval", check_approval_node(agent_state, env))
    /\ UNCHANGED <<initial, entry_label, query_outcome, gate, prompts, last_input,
                   decision, reason_input, router_wrote, invocations>>

\* human_approval_node starts: it prints the summary and shows the prompt.
HumanApprovalPrompt ==
    /\ pc = "human_approval"
    /\ gate = "none"
    /\ invoked' = Append(invoked, "human_approval")
    /\ gate' = "decision"
    /\ prompts' = 1
    /\ UNCHANGED <<agent_state, initial, pc, returned, entry_label, query_outcome,
                   threshold, last_input, decision, reason_input, router_wrote,
                   invocations>>

\* One pass of the while loop: a line is read; a canonical token ends the
\* loop, anything else prints the hint and prompts again.
HumanDecisionInput ==
    /\ pc = "human_approval"
    /\ gate = "decision"
    /\ \E raw \in RawDecisions :
         /\ last_input' = Some(raw)
         /\ IF DecisionAccepted(ReadDecision(raw))
            THEN /\ decision' = Some(ReadDecision(raw))
                 /\ gate' = "reason"
                 /\ UNCHANGED prompts
            ELSE /\ prompts < MaxPrompts
                 /\ prompts' = prompts + 1
                 /\ UNCHANGED <<decision, gate>>
    /\ UNCHANGED <<agent_state, initial, pc, invoked, returned, entry_label,
                   query_outcome, threshold, reason_input, router_wrote, invocations>>

\* The reason is read and the node returns.
HumanReasonInput ==
    /\ pc = "human_approval"
    /\ gate = "reason"
    /\ gate' = "none"
    /\ \E raw \in RawReasons :
         /\ reason_input' = Some(raw)
         /\ Complete("human_approval", human_approval_result(agent_state, decision[1], raw))
    /\ UNCHANGED <<initial, invoked, entry_label, query_outcome, threshold,
                   prompts, last_input, decision, router_wrote, invocations>>

RunFinalize ==
    /\ pc = "finalize"
    /\ invoked' = Append(invoked, "finalize")
    /\ Complete("finalize", finalize_node(agent_state))
    /\ UNCHANGED <<initial, entry_label, query_outcome, threshold, gate, prompts,
                   last_input, decision, reason_input, router_wrote, invocations>>

Next ==
    \/ Entry
    \/ RunCallLangflow
    \/ RunCheckApproval
    \/ HumanApprovalPrompt
    \/ HumanDecisionInput
    \/ HumanReasonInput
    \/ RunFinalize

Spec == Init /\ [][Next]_vars

\* ------------------------------------------- the merge step on its own

\* Messages a caller or a node may hand over: two share an id, one has
\* another id, one has none.
MergeMessagePool ==
    {[id |-> Some("m1"), content |-> <<"my", "leave", "balance">>],
     [id |-> Some("m1"), content |-> <<"leave", "for", "Bob">>],
     [id |-> Some("m2"), content |-> <<"my", "leave", "balance">>],
     Message(<<"my", "leave", "balance">>)}

MergeMessageLists == UNION {[1..n -> MergeMessagePool] : n \in 0..MaxMessages}

\* Values of the fields that do not accumulate.
MergeFieldValues ==
    {EmptyDict,
     [error |-> Some("Unauthorized access attempt")],
     [days_requested |-> Some(3)],
     [error |-> None, days_requested |-> Some(6)]}

\* States and partial updates over the schema, with and without messages.
MergeDicts ==
    MergeFieldValues
    \cup {Put(f, "messages", ms) : f \in MergeFieldValues, ms \in MergeMessageLists}

\* A state S (kept in initial) and a partial update P (kept in returned).
MergeInit ==
    /\ initial \in MergeDicts
    /\ agent_state = initial
    /\ \E P \in MergeDicts : returned = Put(EmptyDict, "update", P)
    /\ pc = "MERGE"
    /\ invoked = <<>>
    /\ entry_label = None
    /\ query_outcome = None
    /\ threshold = None
    /\ gate = "none"
    /\ prompts = 0
    /\ last_input = None
    /\ decision = None
    /\ reason_input = None
    /\ router_wrote = FALSE
    /\ first = None
    /\ other = None

\* The executor merges the partial update into the state.
MergeStep ==
    /\ pc = "MERGE"
    /\ agent_state' = Merge(agent_state, returned["update"])
    /\ pc' = "MERGED"
    /\ UNCHANGED <<initial, invoked, returned, entry_label, query_outcome,
                   threshold, gate, prompts, last_input, decision, reason_input,
                   router_wrote, invocations>>

MergeSpec == MergeInit /\ [][MergeStep]_vars

\* ------------------------------------------- the graph invoked twice

\* The first invocation has ended and the graph is invoked again on the same
\* initial state: run_agent builds initial_state anew on every call, the
\* compiled graph and the module-level client keep nothing of an invocation.
\* What the first invocation was given and what it returned are kept aside.
\* The second invocation carries the state of the first one over.
Reinvoke_KeepsState ==
    /\ pc = "DONE"
    /\ first = None
    /\ first' = Some([final_state |-> agent_state, query_outcome |-> query_outcome,
                      threshold |-> threshold, decision_input |-> last_input,
                      reason_input |-> reason_input, router_wrote |-> router_wrote])
    /\ agent_state' = agent_state
    /\ pc' = "ENTRY"
    /\ invoked' = <<>>
    /\ returned' = EmptyDict
    /\ entry_label' = None
    /\ query_outcome' = None
    /\ threshold' = None
    /\ gate' = "none"
    /\ prompts' = 0
    /\ last_input' = None
    /\ decision' = None
    /\ reason_input' = None
    /\ router_wrote' = FALSE
    /\ UNCHANGED <<initial, other>>

Reinvoke ==
    /\ pc = "DONE"
    /\ first = None
    /\ first' = Some([final_state |-> agent_state, query_outcome |-> query_outcome,
                      threshold |-> threshold, decision_input |-> last_input,
                      reason_input |-> reason_input, router_wrote |-> router_wrote])
    /\ agent_state' = initial
    /\ pc' = "ENTRY"
    /\ invoked' = <<>>
    /\ returned' = EmptyDict
    /\ entry_label' = None
    /\ query_outcome' = None
    /\ threshold' = None
    /\ gate' = "none"
    /\ prompts' = 0
    /\ last_input' = None
    /\ decision' = None
    /\ reason_input' = None
    /\ router_wrote' = FALSE
    /\ UNCHANGED <<initial, other>>

\* The second invocation meets what the first met: the same library (the
\* router's assignments reach the state or not, as before), the same result
\* of query(), the same threshold, the same accepted line and the same reason
\* at the console.
SameAsFirst ==
    first # None =>
        /\ entry_label # None => router_wrote = first[1].router_wrote
        /\ query_outcome \in {None, first[1].query_outcome}
        /\ threshold \in {None, first[1].threshold}
        /\ decision # None => last_input = first[1].decision_input
        /\ reason_input \in {None, first[1].reason_input}

TwiceNext ==
    \/ Entry /\ SameAsFirst'
    \/ RunCallLangflow /\ SameAsFirst'
    \/ RunCheckApproval /\ SameAsFirst'
    \/ HumanApprovalPrompt /\ SameAsFirst'
    \/ HumanDecisionInput /\ SameAsFirst'
    \/ HumanReasonInput /\ SameAsFirst'
    \/ RunFinalize /\ SameAsFirst'
    \/ Reinvoke

TwiceSpec == Init /\ [][TwiceNext]_vars

\* ------------------------------------------- executions that keep going

\* Every node invocation returns (the executor then takes its next step), and
\* the reviewer at the console answers: after at most MaxPrompts prompts the
\* line typed is one the gate accepts.
FairSpec ==
    /\ Spec
    /\ WF_vars(Entry)
    /\ WF_vars(RunCallLangflow)
    /\ WF_vars(RunCheckApproval)
    /\ WF_vars(HumanApprovalPrompt)
    /\ WF_vars(HumanDecisionInput)
    /\ WF_vars(HumanReasonInput)
    /\ WF_vars(RunFinalize)

\* ------------------------------------------- two invocations at once

\* The variables of the running invocation.
running ==
    <<agent_state, initial, pc, invoked, returned, entry_label, query_outcome,
      threshold, gate, prompts, last_input, decision, reason_input, router_wrote>>

\* The states the two invocations are started on: one with a principal who
\* asks about someone else, and one with a request left pending.
ConcInitialStates ==
    {[messages |-> <<Message(<<"leave", "for", "Bob">>)>>,
      current_user_name |-> Some(<<"Alice">>)],
     [messages |-> <<Message(<<"my", "leave", "balance">>)>>,
      days_requested |-> Some(MaxDays), requires_approval |-> TRUE,
      approval_status |-> Some("pending")]}

\* What query() does for the second invocation.
ConcQueryOutcomes ==
    {o \in QueryOutcomes :
        \/ o.raises
        \/ /\ ~o.response.query_flag
           /\ o.response.data_is_dict
           /\ o.response.data \in {EmptyDict,
                                   Put(FullPayload, "days_requested", Some(MaxDays))}}

\* The second invocation: its own state, its position, and what it met.
OtherInvocation(s) ==
    [agent_state |-> s, initial |-> s, pc |-> "ENTRY", returned |-> EmptyDict,
     router_wrote |-> FALSE, query_outcome |-> None, threshold |-> None,
     decision |-> None, reason_input |-> None]

ConcInit ==
    /\ agent_state \in ConcInitialStates
    /\ initial = agent_state
    /\ pc = "ENTRY"
    /\ invoked = <<>>
    /\ returned = EmptyDict
    /\ entry_label = None
    /\ query_outcome = None
    /\ threshold = None
    /\ gate = "none"
    /\ prompts = 0
    /\ last_input = None
    /\ decision = None
    /\ reason_input = None
    /\ router_wrote = FALSE
    /\ first = None
    /\ \E s \in ConcInitialStates : other = Some(OtherInvocation(s))

\* The executor's handling of a node's result in the second invocation.
OtherComplete(o, node, result) ==
    IF result.raised
    THEN [o EXCEPT !.pc = "FAILED"]
    ELSE LET merged == Merge(o.agent_state, result.updates) IN
         [o EXCEPT !.agent_state = merged,
                   !.returned = Put(o.returned, node, result.updates),
                   !.pc = IF node = "check_approval"
                          THEN Route(ApprovalLabelMap, should_require_approval(merged))
                          ELSE Goto(Edges[node])]

OtherEntry ==
    /\ other # None
    /\ other[1].pc = "ENTRY"
    /\ LET r == check_privacy_access(other[1].agent_state) IN
       \E aliased \in BOOLEAN :
           other' = Some([other[1] EXCEPT
                            !.pc = Route(EntryLabelMap, r.label),
                            !.agent_state = IF aliased THEN r.state ELSE @,
                            !.router_wrote = (aliased /\ r.label = "denied")])
    /\ UNCHANGED <<running, first>>

\* call_langflow_node with updates kept at module level: what the running
\* invocation's call left in it is still there.
OtherCallLangflow_ModuleLevelUpdates ==
    /\ other # None
    /\ other[1].pc = "call_langflow"
    /\ \E o \in ConcQueryOutcomes :
         LET result == call_langflow_node(other[1].agent_state, o)
             shared == Merge(Get(returned, "call_langflow", EmptyDict), result.updates)
         IN other' = Some(OtherComplete(
                        [other[1] EXCEPT !.query_outcome =
                            IF TruthySeq(Get(other[1].agent_state, "messages", <<>>))
                            THEN Some(o) ELSE None],
                        "call_langflow", [result EXCEPT !.updates = shared]))
    /\ UNCHANGED <<running, first>>

OtherCallLangflow ==
    /\ other # None
    /\ other[1].pc = "call_langflow"
    /\ \E o \in ConcQueryOutcomes :
         other' = Some(OtherComplete(
                      [other[1] EXCEPT !.query_outcome =
                          IF TruthySeq(Get(other[1].agent_state, "messages", <<>>))
                          THEN Some(o) ELSE None],
                      "call_langflow", call_langflow_node(other[1].agent_state, o)))
    /\ UNCHANGED <<running, first>>

OtherCheckApproval ==
    /\ other # None
    /\ other[1].pc = "check_approval"
    /\ \E env \in EnvThresholdValues :
         other' = Some(OtherComplete(
                      [other[1] EXCEPT !.threshold = Some(ApprovalThreshold(env))],
                      "check_approval", check_approval_node(other[1].agent_state, env)))
    /\ UNCHANGED <<running, first>>

\* human_approval_node from its prompt to its return: the lines the gate
\* rejects change nothing, the accepted line and the reason do.
OtherHumanApproval ==
    /\ other # None
    /\ other[1].pc = "human_approval"
    /\ \E raw \in RawDecisions, raw_reason \in RawReasons :
         /\ DecisionAccepted(ReadDecision(raw))
         /\ other' = Some(OtherComplete(
                         [other[1] EXCEPT !.decision = Some(ReadDecision(raw)),
                                          !.reason_input = Some(raw_reason)],
                         "human_approval",
                         human_approval_result(other[1].agent_state, ReadDecision(raw),
                                               raw_reason)))
    /\ UNCHANGED <<running, first>>

OtherFinalize ==
    /\ other # None
    /\ other[1].pc = "finalize"
    /\ other' = Some(OtherComplete(other[1], "finalize",
                                   finalize_node(other[1].agent_state)))
    /\ UNCHANGED <<running, first>>

ConcNext ==
    \/ Entry
    \/ RunCallLangflow
    \/ RunCheckApproval
    \/ HumanApprovalPrompt
    \/ HumanDecisionInput
    \/ HumanReasonInput
    \/ RunFinalize
    \/ OtherEntry
    \/ OtherCallLangflow
    \/ OtherCheckApproval
    \/ OtherHumanApproval
    \/ OtherFinalize

ConcSpec == ConcInit /\ [][ConcNext]_vars

\* An invocation run alone from state s, given what it meets: whether the
\* router's assignments reach the state, the result of query(), the
\* threshold, the accepted decision and the reason typed. The final state,
\* and whether the reviewer was asked.
RunAlone(s, met) ==
    LET r == check_privacy_access(s)
        s1 == IF met.router_wrote THEN r.state ELSE s
    IN IF Route(EntryLabelMap, r.label) = "finalize"
       THEN [final |-> Merge(s1, finalize_node(s1).updates), asked |-> FALSE]
       ELSE LET o == IF met.query_outcome = None
                     THEN CHOOSE x \in QueryOutcomes : x.raises
                     ELSE met.query_outcome[1]
                env == CHOOSE e \in EnvThresholdValues :
                           ApprovalThreshold(e) = met.threshold[1]
                typed == IF met.decision = None THEN <<>> ELSE met.decision[1]
                typed_reason == IF met.reason_input = None THEN <<>> ELSE met.reason_input[1]
                s2 == Merge(s1, call_langflow_node(s1, o).updates)
                s3 == Merge(s2, check_approval_node(s2, env).updates)
                asked == Route(ApprovalLabelMap, should_require_approval(s3))
                             = "human_approval"
                s4 == IF asked
                      THEN Merge(s3, human_approval_result(s3, typed, typed_reason).updates)
                      ELSE s3
            IN [final |-> Merge(s4, finalize_node(s4).updates), asked |-> asked]

\* ------------------------------------------------------------ claims

\* Whether node n was invoked, and where in the order of invocation.
WasInvoked(n) == \E i \in 1..Len(invoked) : invoked[i] = n

TimesInvoked(n) == Cardinality({i \in 1..Len(invoked) : invoked[i] = n})

\* check_approval has run and returned.
ApprovalChecked == "check_approval" \in DOMAIN returned

\* days_requested in the state check_approval ran on (no later node writes
\* the field) is a number strictly greater than the threshold it read.
DaysAboveThreshold ==
    /\ "days_requested" \in DOMAIN agent_state
    /\ agent_state["days_requested"] # None
    /\ agent_state["days_requested"][1] > threshold[1]

\* C1: whenever check_approval ran on a state whose days_requested is strictly
\* greater than the threshold, it returned requires_approval = TRUE and
\* approval_status = "pending", the executor's next position is human_approval,
\* and finalize is not invoked unless human_approval was invoked before it.
C1_AboveThresholdNeedsApproval ==
    (ApprovalChecked /\ DaysAboveThreshold) =>
        /\ returned["check_approval"] =
               [requires_approval |-> TRUE, approval_status |-> Some("pending")]
        /\ pc \in {"human_approval", "finalize", "DONE"}
        /\ pc \in {"finalize", "DONE"} => WasInvoked("human_approval")
        /\ \A i \in 1..Len(invoked) :
               invoked[i] = "finalize" =>
                   \E j \in 1..(i - 1) : invoked[j] = "human_approval"

\* C1 witness: 6 days against the default threshold 5 ran through the gate.
C1_Witness ==
    /\ pc = "DONE"
    /\ threshold = Some(5)
    /\ Get(agent_state, "days_requested", None) = Some(6)
    /\ invoked = <<"call_langflow", "check_approval", "human_approval", "finalize">>

\* C2: whenever check_approval ran on a state whose days_requested is at most
\* the threshold (equal to it, zero, None or absent included), it returned
\* requires_approval = FALSE and approval_status = "auto_approved", and the
\* execution went on to finalize without human_approval being invoked.
C2_AtOrBelowThresholdAutoApproved ==
    (ApprovalChecked /\ ~DaysAboveThreshold) =>
        /\ returned["check_approval"] =
               [requires_approval |-> FALSE, approval_status |-> Some("auto_approved")]
        /\ pc \in {"finalize", "DONE"}
        /\ ~WasInvoked("human_approval")

\* C2 witness: days_requested equal to the threshold 5 was auto-approved even
\* though the initial state asked for approval.
C2_Witness ==
    /\ pc = "DONE"
    /\ threshold = Some(5)
    /\ Get(agent_state, "days_requested", None) = Some(5)
    /\ Get(initial, "requires_approval", FALSE) = TRUE
    /\ invoked = <<"call_langflow", "check_approval", "finalize">>

\* C2 witness for the absent field: the state never had days_requested.
C2_WitnessAbsent ==
    /\ pc = "DONE"
    /\ "days_requested" \notin DOMAIN agent_state
    /\ ApprovalChecked

\* ---- the entry router

\* text occurs in response as a run of consecutive segments
Contains(response, text) ==
    \E i \in 1..(Len(response) - Len(text) + 1) :
        SubSeq(response, i, i + Len(text) - 1) = text

InitialLatestMessage ==
    LET messages == Get(initial, "messages", <<>>) IN
    IF messages = <<>> THEN <<>> ELSE messages[Len(messages)].content

InitialUserName == Get(initial, "current_user_name", None)

HasPrincipal == InitialUserName # None /\ InitialUserName[1] # <<>>

\* The latest message names someone who is not the acting principal.
RouterFindsOtherName ==
    /\ HasPrincipal
    /\ \E i \in 1..Len(MentionedNames(InitialLatestMessage)) :
           LowerName(MentionedNames(InitialLatestMessage)[i]) # LowerName(InitialUserName[1])

\* The latest message names nobody, or only the acting principal.
MentionsOnlyOwnName ==
    \A i \in 1..Len(MentionedNames(InitialLatestMessage)) :
        /\ HasPrincipal
        /\ LowerName(MentionedNames(InitialLatestMessage)[i]) = LowerName(InitialUserName[1])

\* C3: when the entry router, run on the initial state, finds in the latest
\* message a name other than the acting principal's, the label is "denied",
\* the executor goes straight to finalize and then ends, and call_langflow,
\* check_approval and human_approval are never invoked.
C3_DeniedSkipsBusinessNodes ==
    (pc # "ENTRY" /\ RouterFindsOtherName) =>
        /\ entry_label = Some("denied")
        /\ pc \in {"finalize", "DONE"}
        /\ invoked = IF pc = "DONE" THEN <<"finalize">> ELSE <<>>
        /\ DOMAIN returned \subseteq {"finalize"}

\* C3 witness: "leave for Bob" asked by Alice ended after finalize alone.
C3_Witness ==
    /\ pc = "DONE"
    /\ InitialLatestMessage = <<"leave", "for", "Bob">>
    /\ InitialUserName = Some(<<"Alice">>)
    /\ invoked = <<"finalize">>

\* C4: in every execution whose entry router returned "denied", the state at
\* DONE has a non-empty error and an agent_response containing the
\* access-denied message the router wrote.
C4_DeniedFinalStateCarriesDenial ==
    (pc = "DONE" /\ entry_label = Some("denied")) =>
        /\ TruthyStr(Get(agent_state, "error", None))
        /\ Get(agent_state, "agent_response", None) # None
        /\ \E i \in 1..Len(MentionedNames(InitialLatestMessage)) :
               Contains(agent_state["agent_response"][1],
                        AccessDeniedMessage(MentionedNames(InitialLatestMessage)[i]))

\* C5: when the latest message names nobody or only the acting principal (or
\* there is no message), the entry router returns "proceed", the state
\* call_langflow is invoked on is the initial state, field for field, and
\* call_langflow is the first node invoked.
C5_ProceedLeavesStateUntouched ==
    (pc # "ENTRY" /\ MentionsOnlyOwnName) =>
        /\ entry_label = Some("proceed")
        /\ pc = "call_langflow" => (agent_state = initial /\ invoked = <<>>)
        /\ invoked # <<>> => invoked[1] = "call_langflow"
        /\ pc # "call_langflow" => invoked # <<>>

\* C5 witness: Alice, stored in lower case, asks about "Alice" and the
\* business path runs.
C5_Witness ==
    /\ InitialLatestMessage = <<"leave", "for", "Alice">>
    /\ InitialUserName = Some(<<"alice">>)
    /\ pc = "check_approval"
    /\ invoked = <<"call_langflow">>

\* ---- finalization

\* C6: in every execution that reached DONE, finalize was invoked exactly
\* once and was the last node invoked.
C6_FinalizeOnceAndLast ==
    pc = "DONE" =>
        /\ TimesInvoked("finalize") = 1
        /\ invoked # <<>>
        /\ invoked[Len(invoked)] = "finalize"

\* C6 witness: a run through a collaborator failure and a human rejection
\* ended with finalize.
C6_Witness ==
    /\ pc = "DONE"
    /\ query_outcome # None
    /\ query_outcome[1].raises
    /\ decision = Some(<<"n", "o">>)
    /\ invoked = <<"call_langflow", "check_approval", "human_approval", "finalize">>

\* C7: in every execution that reached DONE, agent_response is present in the
\* final state and is not None.
C7_ResponseAlwaysSet ==
    pc = "DONE" =>
        /\ "agent_response" \in DOMAIN agent_state
        /\ agent_state["agent_response"] # None

\* C8: whenever error is non-empty in the state finalize ran on (finalize does
\* not write error), the final agent_response is the error message built from
\* that error, whatever approval_status and days_requested are.
C8_ErrorOverridesResponse ==
    (pc = "DONE" /\ TruthyStr(Get(agent_state, "error", None))) =>
        Get(agent_state, "agent_response", None) =
            Some(ErrorResponse(agent_state["error"][1]))

\* ---- collaborator failure

LeaveFields ==
    {"employee_id", "current_user_name", "leave_balance", "leave_type",
     "start_date", "end_date", "days_requested"}

CollaboratorFailed == query_outcome # None /\ query_outcome[1].raises

\* C9: when query() raises inside call_langflow, the node returns the partial
\* update {error, agent_response = apology} with no leave field, the run does
\* not fail, check_approval is the next node and finalize follows, and every
\* position short of DONE has a next step.
C9_CollaboratorFailureIsData ==
    CollaboratorFailed =>
        /\ pc # "FAILED"
        /\ "call_langflow" \in DOMAIN returned
        /\ returned["call_langflow"] =
               [error |-> Some(query_outcome[1].exc),
                agent_response |-> Some(ApologyResponse)]
        /\ DOMAIN returned["call_langflow"] \cap LeaveFields = {}
        /\ pc \in {"check_approval", "human_approval", "finalize", "DONE"}
        /\ Len(invoked) >= 2 => invoked[2] = "check_approval"
        /\ pc = "DONE" => (WasInvoked("check_approval") /\ WasInvoked("finalize"))
        /\ pc # "DONE" => ENABLED Next

\* C9 witness: the run ended in DONE after query() raised.
C9_Witness ==
    /\ CollaboratorFailed
    /\ pc = "DONE"
    /\ invoked = <<"call_langflow", "check_approval", "finalize">>
    /\ Get(agent_state, "error", None) = Some("Error making API request")

\* ---- the human-input gate

\* The raw inputs that are "yes" or "no" once trimmed and lower-cased.
RawYes == { <<"y", "e", "s">>, <<" ", "Y", "E", "S", " ">> }

RawNo == { <<"N", "o">> }

\* What the gate has returned is approved for yes, rejected for no, and the
\* accepted input is one of the two tokens.
GateOutcomeMatchesToken ==
    /\ decision # None => last_input[1] \in RawYes \cup RawNo
    /\ "human_approval" \in DOMAIN returned =>
           /\ returned["human_approval"]["approval_status"] \in
                  {Some("approved"), Some("rejected")}
           /\ returned["human_approval"]["approval_status"] = Some("approved")
                  <=> last_input[1] \in RawYes
           /\ returned["human_approval"]["approval_status"] = Some("rejected")
                  <=> last_input[1] \in RawNo

\* One line read at the decision prompt: a token is accepted, anything else
\* is prompted for again and changes nothing of the run.
GateInputStep ==
    (gate = "decision" /\ vars' # vars) =>
        IF last_input'[1] \in RawYes \cup RawNo
        THEN /\ gate' = "reason"
             /\ decision' = Some(IF last_input'[1] \in RawYes
                                 THEN <<"y", "e", "s">> ELSE <<"n", "o">>)
        ELSE /\ gate' = "decision"
             /\ prompts' = prompts + 1
             /\ UNCHANGED <<agent_state, returned, pc, invoked, decision>>

\* C10: the gate accepts only "yes" and "no" after strip() and lower(): any
\* other line is prompted for again with no change of state, and the update
\* the gate returns has approval_status "approved" exactly for yes and
\* "rejected" exactly for no, never anything else.
C10_GateAcceptsOnlyCanonicalTokens ==
    /\ []GateOutcomeMatchesToken
    /\ [][GateInputStep]_vars

\* C10 witness: "y" was refused, then " YES " was accepted and the gate
\* returned approved.
C10_Witness ==
    /\ "human_approval" \in DOMAIN returned
    /\ prompts >= 2
    /\ last_input = Some(<<" ", "Y", "E", "S", " ">>)
    /\ returned["human_approval"]["approval_status"] = Some("approved")

\* ------------------------------------------------------------ C11

\* The state S and the partial update P of a merge, and what non-accumulating
\* fields become.
MergedFrom == initial

MergedUpdate == returned["update"]

OtherFieldsOverwritten ==
    /\ DOMAIN agent_state = (DOMAIN MergedFrom) \cup (DOMAIN MergedUpdate)
    /\ \A k \in (DOMAIN agent_state) \ {"messages"} :
           agent_state[k] = IF k \in DOMAIN MergedUpdate
                            THEN MergedUpdate[k] ELSE MergedFrom[k]

BothCarryMessages ==
    "messages" \in DOMAIN MergedFrom /\ "messages" \in DOMAIN MergedUpdate

\* A message of the update carries the id of a message of the state.
UpdateReusesId ==
    /\ BothCarryMessages
    /\ \E i \in 1..Len(MergedUpdate["messages"]) :
       \E j \in 1..Len(MergedFrom["messages"]) :
           /\ MergedUpdate["messages"][i].id # None
           /\ MergedUpdate["messages"][i].id = MergedFrom["messages"][j].id

SecondInvocationDone == first # None /\ pc = "DONE"

C12_WitnessDenied ==
    /\ SecondInvocationDone
    /\ entry_label = Some("denied")
    /\ first[1].router_wrote
    /\ router_wrote

\* ------------------------------------------------------------ C13

\* query() returned inside call_langflow_node, and the node has returned.
CollaboratorReturned ==
    /\ "call_langflow" \in DOMAIN returned
    /\ query_outcome # None
    /\ ~query_outcome[1].raises

\* The key of the payload a leave field is copied from.
PayloadKey(k) == IF k = "current_user_name" THEN "employee_name" ELSE k

\* Field k is as it was before call_langflow ran: the router writes no leave
\* field and no later node does.
KeepsInitialValue(k) ==
    /\ (k \in DOMAIN agent_state) = (k \in DOMAIN initial)
    /\ k \in DOMAIN initial => agent_state[k] = initial[k]

\* The result is informational, or its data is empty.
NoDataToCopy ==
    \/ query_outcome[1].response.query_flag
    \/ query_outcome[1].response.data_is_dict /\ DOMAIN query_outcome[1].response.data = {}

\* C13: after call_langflow returned on a result of query(), every leave field
\* whose key the payload lacks is absent from the node's update and has the
\* value it had before; and when the result is informational or has no data
\* the update is agent_response alone and every leave field has the value it
\* had before.
C13_AbsentPayloadFieldsUntouched ==
    CollaboratorReturned =>
        /\ \A k \in LeaveFields :
               PayloadKey(k) \notin DOMAIN query_outcome[1].response.data =>
                   /\ k \notin DOMAIN returned["call_langflow"]
                   /\ KeepsInitialValue(k)
        /\ NoDataToCopy =>
               /\ DOMAIN returned["call_langflow"] = {"agent_response"}
               /\ \A k \in LeaveFields : KeepsInitialValue(k)

\* A payload with some leave fields but no days_requested, copied onto a
\* state whose days_requested was set before.
C13_Witness ==
    /\ CollaboratorReturned
    /\ ~NoDataToCopy
    /\ "employee_id" \in DOMAIN returned["call_langflow"]
    /\ "days_requested" \notin DOMAIN query_outcome[1].response.data
    /\ Get(initial, "days_requested", None) = Some(2)
    /\ Get(agent_state, "days_requested", None) = Some(2)
    /\ pc = "DONE"

\* An informational result carrying a full payload: nothing is copied.
C13_WitnessInformational ==
    /\ CollaboratorReturned
    /\ query_outcome[1].response.query_flag
    /\ DOMAIN query_outcome[1].response.data # {}
    /\ pc = "DONE"

\* ------------------------------------------------------------ C15

StartedByRunAgent == initial \in RunAgentStates

\* Every partial update a node returned has declared fields only.
UpdatesWithinSchema ==
    \A n \in DOMAIN returned : DOMAIN returned[n] \subseteq AgentStateFields

\* C15: in every state of an execution started by run_agent, every key of the
\* state and every key of every partial update returned by a node is a field
\* declared in AgentState.
C15_KeysWithinSchema ==
    StartedByRunAgent =>
        /\ DOMAIN agent_state \subseteq AgentStateFields
        /\ UpdatesWithinSchema

\* The part of C15 about the nodes alone, for any caller.
C15_NodeUpdatesWithinSchema == UpdatesWithinSchema

\* ------------------------------------------------------------ C16

\* The order of the nodes along the graph.
NodeRank(n) ==
    CASE n = "call_langflow" -> 1
      [] n = "check_approval" -> 2
      [] n = "human_approval" -> 3
      [] n = "finalize" -> 4

\* C16: the nodes invoked so far were invoked in the order call_langflow,
\* check_approval, human_approval, finalize, each at most once; the executor
\* is at one position at a time, and a node is invoked only from its own
\* position.
C16_NodesOnceInOrder ==
    /\ \A i, j \in 1..Len(invoked) : i < j => NodeRank(invoked[i]) < NodeRank(invoked[j])
    /\ \A n \in Nodes : TimesInvoked(n) <= 1
    /\ pc \in ExecutorStates
    /\ pc \in Nodes /\ invoked # <<>> => NodeRank(invoked[Len(invoked)]) <= NodeRank(pc)

\* All four nodes ran.
C16_Witness ==
    /\ pc = "DONE"
    /\ invoked = <<"call_langflow", "check_approval", "human_approval", "finalize">>
    /\ prompts = MaxPrompts

\* ------------------------------------------------------------ C17

\* The executor was sent to human_approval: the node is about to run, is
\* running or has run.
RoutedToHumanApproval == pc = "human_approval" \/ WasInvoked("human_approval")

\* C17: once check_approval returned, the execution goes to human_approval
\* exactly when the update check_approval returned has requires_approval =
\* TRUE, and to finalize otherwise, whatever requires_approval was in the
\* initial state; and human_approval is never reached without check_approval.
C17_RoutedOnMergedFlag ==
    /\ RoutedToHumanApproval => ApprovalChecked
    /\ ApprovalChecked =>
           /\ "requires_approval" \in DOMAIN returned["check_approval"]
           /\ RoutedToHumanApproval = returned["check_approval"]["requires_approval"]
           /\ ~returned["check_approval"]["requires_approval"] =>
                  pc \in {"finalize", "DONE"}

\* The initial state said requires_approval = TRUE, the days are at or below
\* the threshold: check_approval has just returned and finalize is next.
C17_Witness ==
    /\ pc = "finalize"
    /\ ApprovalChecked
    /\ Get(initial, "requires_approval", FALSE) = TRUE
    /\ Get(initial, "approval_status", None) = Some("pending")
    /\ ~DaysAboveThreshold
    /\ returned["check_approval"]["requires_approval"] = FALSE
    /\ invoked = <<"call_langflow", "check_approval">>

\* The initial state said requires_approval = FALSE, the days exceed the
\* threshold: human_approval is next.
C17_WitnessNeedsApproval ==
    /\ pc = "human_approval"
    /\ gate = "none"
    /\ Get(initial, "requires_approval", TRUE) = FALSE
    /\ returned["check_approval"]["requires_approval"] = TRUE

\* ------------------------------------------------------------ C18

\* A step that leaves the executor inside the decision prompt: a line was
\* typed and not accepted.
StaysAtDecisionPrompt == gate = "decision" /\ gate' = "decision"

\* C18: every execution whose node invocations return and whose reviewer
\* eventually types an accepted line reaches DONE, after at most four node
\* invocations; while the executor waits at the console it is inside
\* human_approval, finalize has not been invoked, and a line that is not
\* accepted changes neither the state nor the position nor the nodes invoked.
C18_DoneUnlessBlockedAtGate ==
    /\ <>(pc = "DONE")
    /\ [](Len(invoked) <= Cardinality(Nodes))
    /\ [](gate # "none" => AwaitingInput /\ ~WasInvoked("finalize"))
    /\ [][StaysAtDecisionPrompt => UNCHANGED <<agent_state, pc, invoked, returned>>]_vars

\* An execution that was held at the gate by rejected lines for as long as
\* the model allows and then finished.
C18_Witness ==
    /\ pc = "DONE"
    /\ prompts = MaxPrompts
    /\ decision = Some(<<"y", "e", "s">>)
    /\ Get(agent_state, "approval_status", None) = Some("approved")
    /\ Len(invoked) = Cardinality(Nodes)

\* ------------------------------------------------------------ C19

\* What the running invocation met.
RunningMet ==
    [router_wrote |-> router_wrote, query_outcome |-> query_outcome,
     threshold |-> threshold, decision |-> decision, reason_input |-> reason_input]

RunningStep == running' # running

OtherInvocationStep == other' # other

FinalApprovalStatus == Get(agent_state, "approval_status", None)

FinalRequiresApproval == Get(agent_state, "requires_approval", FALSE)

\* C20: in a finished execution that took the proceed path, approval_status is
\* not pending; requires_approval is TRUE exactly when the status is approved
\* or rejected, and FALSE exactly when it is auto_approved.
C20_FinalApprovalConsistent ==
    (pc = "DONE" /\ entry_label = Some("proceed")) =>
        /\ "requires_approval" \in DOMAIN agent_state
        /\ FinalApprovalStatus # Some("pending")
        /\ FinalRequiresApproval = (FinalApprovalStatus \in {Some("approved"), Some("rejected")})
        /\ (~FinalRequiresApproval) = (FinalApprovalStatus = Some("auto_approved"))

\* A finished execution that started with a stale 'auto_approved' status and
\* ended approved by the reviewer.
C20_Witness ==
    /\ pc = "DONE"
    /\ entry_label = Some("proceed")
    /\ Get(initial, "approval_status", None) = Some("auto_approved")
    /\ FinalRequiresApproval
    /\ FinalApprovalStatus = Some("approved")

\* ------------------------------------------------------------ C21

\* The entry router has run on an initial state without a principal
\* (current_user_name absent, None or empty) or without messages.
RouterRanWithoutPrincipal ==
    /\ entry_label # None
    /\ \/ ~HasPrincipal
       \/ Get(initial, "messages", <<>>) = <<>>

C21_WitnessEmptyName ==
    /\ ~StartedByRunAgent
    /\ InitialUserName = Some(<<>>)
    /\ InitialLatestMessage = <<"Bob's", "leave">>
    /\ entry_label = Some("proceed")

\* ------------------------------------------------------------ C22

\* The labels the return statements of the two routers name.
EntryLabels == {"proceed", "denied"}

ApprovalLabels == {"human_approval", "finalize"}

\* The node whose outgoing edge is conditional.
ConditionalSources == {"check_approval"}

Destinations(label_map) == {label_map[l] : l \in DOMAIN label_map}

\* The tables of the graph fit together.
GraphClosed ==
    /\ EntryLabels \subseteq DOMAIN EntryLabelMap
    /\ ApprovalLabels \subseteq DOMAIN ApprovalLabelMap
    /\ Destinations(EntryLabelMap) \subseteq Nodes
    /\ Destinations(ApprovalLabelMap) \subseteq Nodes
    /\ Destinations(Edges) \subseteq Nodes \cup {END}
    /\ DOMAIN Edges \subseteq Nodes
    /\ \A n \in Nodes : (n \in DOMAIN Edges) # (n \in ConditionalSources)

\* C22: the labels the routers return on any state an execution passes
\* through are among the labels their return statements name, each of those is
\* a key of the router's map, every destination is a registered node or END,
\* every node has exactly one outgoing edge (plain or conditional), and the
\* execution is never FAILED.
C22_GraphStructurallyClosed ==
    /\ GraphClosed
    /\ check_privacy_access(agent_state).label \in EntryLabels
    /\ should_require_approval(agent_state) \in ApprovalLabels
    /\ entry_label # None => entry_label[1] \in DOMAIN EntryLabelMap
    /\ pc \in ExecutorStates \ {"FAILED"}

\* An execution started on the empty state passed both routers and every
\* plain edge on the way to END.
C22_Witness ==
    /\ initial = EmptyDict
    /\ entry_label = Some("proceed")
    /\ ApprovalChecked
    /\ pc = "DONE"
    /\ invoked = <<"call_langflow", "check_approval", "finalize">>

====
